---- MODULE Spec2Model ----
(***************************************************************************)
(* A model of src/src/app.py: the SkillCorner explorer, a Streamlit script *)
(* that loads the competition editions and all pages of the matches        *)
(* collection, and then derives the competition / season / analysis /      *)
(* match selection from the sidebar widgets every time it is re-run.       *)
(***************************************************************************)
EXTENDS Integers, Sequences, FiniteSets, TLC

VARIABLES
    editions_resp,    \* remote: the response to GET /competition_editions/?user=true
    pages,            \* remote: matches URL -> the response to a GET of it
    pc,               \* where the script run is
    url,              \* fetch_all_matches: the local url
    results,          \* fetch_all_matches: the local results
    requested,        \* history: the URLs fetch_all_matches has requested
    refetched,        \* history: the URLs it has requested more than once
    turns,            \* history: the turns of its loop so far, modulo 2
    df_comp_seasons,  \* the (memoized) return value of fetch_competition_editions
    df_matches,       \* the (memoized) return value of fetch_all_matches
    messages,         \* st.error calls made inside the memoized fetch functions
    uncaught,         \* the exception that ended the last script run, if any
    widgets,          \* Streamlit's per-session widget state
    view,             \* the script's locals and what the last run rendered
    event             \* history: the last user interaction handled

vars == <<editions_resp, pages, pc, url, results, requested, refetched, turns,
          df_comp_seasons, df_matches, messages, uncaught, widgets, view, event>>

\* ------------------------------------------------------------------ bounds

\* The longest results array one matches page carries.
MaxPageLen == 1

\* The longest results array the competition editions response carries.
MaxEditions == 2

\* ------------------------------------------------------------ Python values

None == "None"

Range(s) == {s[i] : i \in 1..Len(s)}

SeqsUpTo(S, n) == UNION {[1..k -> S] : k \in 0..n}

\* `if x:` on a str-or-None value.
Truthy(x) == x # None /\ x # ""

\* pd.DataFrame(rows), the value None, and a name not assigned yet.
DataFrame(rows) == [kind |-> "DataFrame", rows |-> rows]

NoneValue == [kind |-> "None", rows |-> <<>>]

Unassigned == [kind |-> "unassigned", rows |-> <<>>]

NoException == [type |-> "none", in |-> "none"]

Exception(type, in) == [type |-> type, in |-> in]

\* requests.get raised (timeout, DNS, connection reset): there is no response.
TransportFailure == [kind |-> "transport"]

HttpResponse(status, body) == [kind |-> "http", status |-> status, body |-> body]

ErrorBody == [detail |-> "unavailable"]

\* ------------------------------------------------------------ the remote

BASE_URL == "https://skillcorner.com/api"

MatchesUrl == BASE_URL \o "/matches/?user=true"

\* The URLs the matches collection may name as a page's next.
Urls == {MatchesUrl, MatchesUrl \o "&offset=1", MatchesUrl \o "&offset=2"}

CompetitionIds == {1, 2}

SeasonIds == {1, 2}

CompetitionNameOf(c) == IF c = 1 THEN "Liga" ELSE "Cup"

StartYearOf(s) == 2022 + s

EditionRecord(c, s) ==
    [competition |-> [id |-> c, name |-> CompetitionNameOf(c)],
     season |-> [id |-> s, start_year |-> StartYearOf(s), end_year |-> StartYearOf(s) + 1]]

ValidRecords == {EditionRecord(c, s) : c \in CompetitionIds, s \in SeasonIds}

\* Edition records that lack one of the nested fields lines 32-35 read.
MalformedRecords ==
    LET r == EditionRecord(1, 1) IN
    { [season |-> r.season],
      [competition |-> r.competition],
      [competition |-> [name |-> r.competition.name], season |-> r.season],
      [competition |-> [id |-> r.competition.id], season |-> r.season],
      [competition |-> r.competition,
       season |-> [start_year |-> r.season.start_year, end_year |-> r.season.end_year]],
      [competition |-> r.competition,
       season |-> [id |-> r.season.id, end_year |-> r.season.end_year]],
      [competition |-> r.competition,
       season |-> [id |-> r.season.id, start_year |-> r.season.start_year]] }

MatchRecord(id, c, s, date_time, home, away) ==
    [id |-> id, competition_id |-> c, season_id |-> s, date_time |-> date_time,
     home_team |-> [short_name |-> home], away_team |-> [short_name |-> away]]

\* The matches the remote collection holds.
MatchCatalog ==
    { MatchRecord(1, 1, 1, "2024-01-01T15:00", "A", "B"),
      MatchRecord(2, 1, 1, "2024-01-01T15:00", "A", "B"),
      MatchRecord(3, 1, 1, "2024-01-08T15:00", "B", "A"),
      MatchRecord(4, 2, 1, "2024-02-02T20:00", "D", "E") }

\* The bodies of a 200 response of a matches page: results, and next as a URL,
\* as null, or left out.
PageBodies(rows, nexts) ==
    {[results |-> r, next |-> n] : r \in SeqsUpTo(rows, MaxPageLen), n \in nexts \cup {None}}
    \cup {[results |-> r] : r \in SeqsUpTo(rows, MaxPageLen)}

PageResponses(rows, nexts) ==
    {HttpResponse(200, b) : b \in PageBodies(rows, nexts)}
    \cup {HttpResponse(500, ErrorBody), TransportFailure}

\* --------------------------------------------- fetch_competition_editions

\* The subscripts of lines 32-35 all find their key.
HasRequiredFields(item) ==
    /\ "competition" \in DOMAIN item
    /\ "id" \in DOMAIN item.competition
    /\ "name" \in DOMAIN item.competition
    /\ "season" \in DOMAIN item
    /\ "id" \in DOMAIN item.season
    /\ "start_year" \in DOMAIN item.season
    /\ "end_year" \in DOMAIN item.season

\* The dict of lines 31-36.
ExtractRow(item) ==
    [competition_id |-> item["competition"]["id"],
     competition_name |-> item["competition"]["name"],
     season_id |-> item["season"]["id"],
     season_name |-> ToString(item["season"]["start_year"]) \o "/"
                     \o ToString(item["season"]["end_year"])]

\* A variant that drops the records it cannot read instead of raising.
ExtractSkippingMalformed(items) ==
    LET good == SelectSeq(items, HasRequiredFields)
    IN [exc |-> "none", rows |-> [i \in 1..Len(good) |-> ExtractRow(good[i])]]

\* The list comprehension of lines 30-38: a row per item, in order, or the
\* KeyError of the first item that lacks a field.
ExtractedData(items) ==
    IF \A i \in 1..Len(items) : HasRequiredFields(items[i])
    THEN [exc |-> "none", rows |-> [i \in 1..Len(items) |-> ExtractRow(items[i])]]
    ELSE [exc |-> "KeyError", rows |-> <<>>]

\* What a call of fetch_competition_editions does with the response: the
\* value it returns, the exception it lets through, the st.error it makes.
CompetitionEditionsOutcome(response) ==
    IF response.kind = "transport" \/ response.status >= 400
    THEN [exc |-> "none", ret |-> NoneValue,
          msgs |-> {<<"fetch_competition_editions", "API Request Failed">>}]
    ELSE IF "results" \notin DOMAIN response.body
    THEN [exc |-> "none", ret |-> NoneValue,
          msgs |-> {<<"fetch_competition_editions", "API Response does not contain 'results'">>}]
    ELSE LET x == ExtractedData(response.body["results"])
         IN IF x.exc = "none"
            THEN [exc |-> "none", ret |-> DataFrame(x.rows), msgs |-> {}]
            ELSE [exc |-> x.exc, ret |-> Unassigned, msgs |-> {}]

\* Line 88, and the entry of the call of line 89 (lines 50-52).
FetchCompetitionEditions ==
    /\ pc = "fetch_competition_editions"
    /\ LET o == CompetitionEditionsOutcome(editions_resp)
       IN /\ df_comp_seasons' = o.ret
          /\ messages' = messages \cup o.msgs
          /\ IF o.exc = "none"
             THEN /\ pc' = "fetch_all_matches"
                  /\ url' = MatchesUrl
                  /\ uncaught' = uncaught
             ELSE /\ pc' = "exception"
                  /\ url' = url
                  /\ uncaught' = Exception(o.exc, "fetch_competition_editions")
    /\ results' = <<>>
    /\ UNCHANGED <<editions_resp, pages, requested, refetched, turns, df_matches,
                   widgets, view, event>>

\* ------------------------------------------------------ fetch_all_matches

\* The accumulated results a run of this model follows; a chain of pages
\* that never ends outgrows it.
MaxResults == Cardinality(Urls) * MaxPageLen

\* A variant that puts each page in front of the earlier ones.
ExtendInFront(acc, new) == new \o acc

\* results.extend(data["results"]), line 58.
Extend(acc, new) == acc \o new

\* data.get("next"), line 59.
GetNext(data) == IF "next" \in DOMAIN data THEN data["next"] ELSE None

\* One turn of the loop of lines 54-62 with url truthy; on a response that
\* is not a 200, the break and lines 64-65.
FetchPage ==
    /\ pc = "fetch_all_matches"
    /\ Truthy(url)
    /\ requested' = requested \cup {url}
    /\ refetched' = IF url \in requested THEN refetched \cup {url} ELSE refetched
    /\ turns' = (turns + 1) % 2
    /\ LET response == pages[url] IN
       IF response.kind = "transport"
       THEN /\ pc' = "exception"
            /\ uncaught' = Exception("ConnectionError", "fetch_all_matches")
            /\ UNCHANGED <<url, results, df_matches, messages>>
       ELSE IF response.status = 200
       THEN IF "results" \notin DOMAIN response.body
            THEN /\ pc' = "exception"
                 /\ uncaught' = Exception("KeyError", "fetch_all_matches")
                 /\ UNCHANGED <<url, results, df_matches, messages>>
            ELSE IF Len(results) + Len(response.body["results"]) > MaxResults
            THEN /\ pc' = "outgrown"
                 /\ UNCHANGED <<url, results, df_matches, messages, uncaught>>
            ELSE /\ results' = Extend(results, response.body["results"])
                 /\ url' = GetNext(response.body)
                 /\ UNCHANGED <<pc, df_matches, messages, uncaught>>
       ELSE /\ messages' = messages \cup
                  {<<"fetch_all_matches", "Error " \o ToString(response.status)>>}
            /\ df_matches' = DataFrame(results)
            /\ pc' = "render"
            /\ UNCHANGED <<url, results, uncaught>>
    /\ UNCHANGED <<editions_resp, pages, df_comp_seasons, widgets, view, event>>

\* The loop's exit on a url that is not truthy, and lines 64-65.
ReturnMatches ==
    /\ pc = "fetch_all_matches"
    /\ ~Truthy(url)
    /\ df_matches' = DataFrame(results)
    /\ pc' = "render"
    /\ UNCHANGED <<editions_resp, pages, url, results, requested, refetched, turns,
                   df_comp_seasons, messages, uncaught, widgets, view, event>>

\* --------------------------------------------------------------- widgets

\* A widget's state in the session: the options it was last built with, its
\* value, and whether the last run rendered it.
Widget(opts, val) == [opts |-> opts, val |-> val, shown |-> TRUE]

Fresh == [opts |-> <<>>, val |-> None, shown |-> FALSE]

WidgetNames == {"comp", "season", "mode", "vis", "match", "upload"}

NoWidgets == [n \in WidgetNames |-> Fresh]

\* st.sidebar.selectbox(label, options), lines 94, 99 and 166: a widget built
\* with the options of the previous run keeps the value chosen then; one
\* built with other options is a new widget and shows its first option; one
\* without options returns None.
Selectbox(w, options) ==
    IF options = <<>> THEN Widget(options, None)
    ELSE IF w.opts = options /\ w.val \in Range(options) THEN Widget(options, w.val)
    ELSE Widget(options, options[1])

\* st.sidebar.radio(label, options), lines 103 and 107.
Radio(w, options) == Selectbox(w, options)

AnalysisTypes == <<"Visualise Player Aspects", "Analyse Match">>

Visualizations == <<"Bar Plot", "Scatter Plot">>

\* The widget state a run leaves: a run that ends normally drops the state of
\* the widgets it did not render, a run ended by an exception keeps it.
SessionAfter(old, new, premature) ==
    [n \in WidgetNames |->
        IF n \in DOMAIN new THEN new[n]
        ELSE IF premature THEN [old[n] EXCEPT !.shown = FALSE]
        ELSE Fresh]

\* ----------------------------------------------------- the option dicts

\* A dict built from (key, value) pairs in order: its keys in the order of
\* their first insertion, each with the value inserted last.
Dict(pairs) ==
    LET n == Len(pairs)
        first == {i \in 1..n : \A j \in 1..(i - 1) : pairs[j][1] # pairs[i][1]}
        nth(p) == CHOOSE i \in first : Cardinality({j \in first : j < i}) = p - 1
        last(k) == CHOOSE i \in 1..n :
                       pairs[i][1] = k /\ \A j \in (i + 1)..n : pairs[j][1] # k
    IN [keys |-> [p \in 1..Cardinality(first) |-> pairs[nth(p)][1]],
        at |-> [k \in {pairs[i][1] : i \in 1..n} |-> pairs[last(k)][2]]]

CompLabel(row) ==
    row["competition_name"] \o " (" \o ToString(row["competition_id"]) \o ")"

SeasonLabel(row) ==
    row["season_name"] \o " (" \o ToString(row["season_id"]) \o ")"

MatchLabel(row) ==
    row["date_time"] \o " - " \o row["home_team"]["short_name"]
        \o " vs " \o row["away_team"]["short_name"]

\* Line 93.
comp_options(rows) ==
    Dict([i \in 1..Len(rows) |-> <<CompLabel(rows[i]), rows[i]["competition_id"]>>])

\* A variant that offers the seasons of every competition.
AllSeasons(rows, selected_comp_id) == rows

\* Line 97.
filtered_seasons(rows, selected_comp_id) ==
    SelectSeq(rows, LAMBDA r : r["competition_id"] = selected_comp_id)

\* Line 98.
season_options(rows) ==
    Dict([i \in 1..Len(rows) |-> <<SeasonLabel(rows[i]), rows[i]["season_id"]>>])

\* Line 161.
filtered_matches(rows, selected_comp_id, selected_season_id) ==
    SelectSeq(rows, LAMBDA r : /\ r["competition_id"] = selected_comp_id
                               /\ r["season_id"] = selected_season_id)

\* Line 165.
match_options(rows) ==
    Dict([i \in 1..Len(rows) |-> <<MatchLabel(rows[i]), rows[i]["id"]>>])

\* -------------------------------------------- the Analyse Match fetches

\* What the dynamic events endpoint may answer: no answer, an error status,
\* or a 200 whose URL pandas can or cannot read as CSV.
EventResponses ==
    {TransportFailure, HttpResponse(500, ErrorBody),
     HttpResponse(200, [csv |-> "readable"]), HttpResponse(200, [csv |-> "unreadable"])}

\* fetch_dynamic_events(match_id), lines 69-82, with the default file_format.
DynamicEventsOutcome(match_id, response) ==
    IF response.kind = "transport"
    THEN [exc |-> "ConnectionError", ret |-> Unassigned, msgs |-> {}]
    ELSE IF response.status = 200
    THEN IF response.body["csv"] = "readable"
         THEN [exc |-> "none", ret |-> DataFrame(<<[match_id |-> match_id]>>), msgs |-> {}]
         ELSE [exc |-> "ParserError", ret |-> Unassigned, msgs |-> {}]
    ELSE [exc |-> "none", ret |-> NoneValue,
          msgs |-> {"Error " \o ToString(response.status)}]

\* The files a user may give to the uploader.
Files == {"events.csv", "broken.csv"}

\* pd.read_csv(uploaded_file), line 179.
ReadUploaded(file) ==
    IF file = "events.csv"
    THEN [exc |-> "none", ret |-> DataFrame(<<[uploaded |-> file]>>)]
    ELSE [exc |-> "ParserError", ret |-> Unassigned]

\* --------------------------------------------------- the script, 91-183

Unset == <<>>

EmptyView ==
    [selected_comp_id |-> Unset, selected_season_id |-> Unset,
     analysis_option |-> None, visualization_option |-> None,
     filtered_matches |-> <<>>, match_options |-> Dict(<<>>),
     selected_match_id |-> Unset, button |-> FALSE,
     df_dynamic_events |-> Unassigned, df_uploaded |-> Unassigned,
     shown |-> {}]

\* A run of lines 176-181 after the button block: v holds the locals so far,
\* new the widgets rendered so far.
UploaderBlock(old, new, v) ==
    LET file == old["upload"].val
        wupload == Widget(<<>>, file)
        rendered == new @@ ("upload" :> wupload)
    IN IF file = None
       THEN [widgets |-> SessionAfter(old, rendered, FALSE), view |-> v,
             uncaught |-> NoException]
       ELSE LET u == ReadUploaded(file)
            IN IF u.exc = "none"
               THEN [widgets |-> SessionAfter(old, rendered, FALSE),
                     view |-> [v EXCEPT !.df_uploaded = u.ret,
                                        !.shown = @ \cup {"Uploaded Dynamic Events Data"}],
                     uncaught |-> NoException]
               ELSE [widgets |-> SessionAfter(old, rendered, TRUE), view |-> v,
                     uncaught |-> Exception(u.exc, "script")]

\* Lines 160-181, the Analyse Match branch.
AnalyseMatch(old, new, v0, dfm, clicked, ev) ==
    LET v1 == [v0 EXCEPT !.shown = @ \cup {"Analyse Match"}]
    IN IF dfm.rows = <<>>
       THEN \* the frame of no records has no competition_id column
            [widgets |-> SessionAfter(old, new, TRUE), view |-> v1,
             uncaught |-> Exception("KeyError", "script")]
       ELSE
       LET fm == filtered_matches(dfm.rows, v0.selected_comp_id[1], v0.selected_season_id[1])
           mo == match_options(fm)
           wmatch == Selectbox(old["match"], mo.keys)
           new2 == new @@ ("match" :> wmatch)
           v2 == [v1 EXCEPT !.filtered_matches = fm, !.match_options = mo,
                            !.shown = @ \cup {"filtered_matches"}]
       IN IF wmatch.val = None
          THEN [widgets |-> SessionAfter(old, new2, TRUE), view |-> v2,
                uncaught |-> Exception("KeyError", "script")]
          ELSE
          LET v3 == [v2 EXCEPT !.selected_match_id = <<mo.at[wmatch.val]>>,
                               !.button = TRUE]
          IN IF ~clicked THEN UploaderBlock(old, new2, v3)
             ELSE LET d == DynamicEventsOutcome(v3.selected_match_id[1], ev)
                  IN IF d.exc # "none"
                     THEN [widgets |-> SessionAfter(old, new2, TRUE), view |-> v3,
                           uncaught |-> Exception(d.exc, "fetch_dynamic_events")]
                     ELSE UploaderBlock(old, new2,
                              [v3 EXCEPT !.df_dynamic_events = d.ret,
                                         !.shown = @ \cup d.msgs \cup
                                             (IF d.ret.kind = "DataFrame"
                                              THEN {"Dynamic Events Data"} ELSE {})])

\* Lines 91-183: the run of the script's body on the two tables, with the
\* session's widget state old, the button clicked or not, and ev the answer
\* of the dynamic events endpoint should the run ask for it.
RunScript(dfc, dfm, old, clicked, ev) ==
    IF dfc.kind = "None"
    THEN [widgets |-> SessionAfter(old, <<>>, FALSE),
          view |-> [EmptyView EXCEPT !.shown = {"Data Load Failed"}],
          uncaught |-> NoException]
    ELSE
    LET co == comp_options(dfc.rows)
        wcomp == Selectbox(old["comp"], co.keys)
        new1 == ("comp" :> wcomp)
    IN IF wcomp.val = None
       THEN [widgets |-> SessionAfter(old, new1, TRUE), view |-> EmptyView,
             uncaught |-> Exception("KeyError", "script")]
       ELSE
       LET selected_comp_id == co.at[wcomp.val]
           so == season_options(filtered_seasons(dfc.rows, selected_comp_id))
           wseason == Selectbox(old["season"], so.keys)
           new2 == new1 @@ ("season" :> wseason)
           v1 == [EmptyView EXCEPT !.selected_comp_id = <<selected_comp_id>>]
       IN IF wseason.val = None
          THEN [widgets |-> SessionAfter(old, new2, TRUE), view |-> v1,
                uncaught |-> Exception("KeyError", "script")]
          ELSE
          LET wmode == Radio(old["mode"], AnalysisTypes)
              new3 == new2 @@ ("mode" :> wmode)
              v2 == [v1 EXCEPT !.selected_season_id = <<so.at[wseason.val]>>,
                               !.analysis_option = wmode.val]
          IN IF wmode.val = "Visualise Player Aspects"
             THEN LET wvis == Radio(old["vis"], Visualizations)
                  IN [widgets |-> SessionAfter(old, new3 @@ ("vis" :> wvis), FALSE),
                      view |-> [v2 EXCEPT !.visualization_option = wvis.val,
                                          !.shown = {wvis.val}],
                      uncaught |-> NoException]
             ELSE AnalyseMatch(old, new3, v2, dfm, clicked, ev)

\* The first run reaches line 91.
Render ==
    /\ pc = "render"
    /\ \E r \in {RunScript(df_comp_seasons, df_matches, widgets, FALSE, TransportFailure)} :
          /\ widgets' = r.widgets
          /\ view' = r.view
          /\ uncaught' = r.uncaught
    /\ pc' = "ui"
    /\ UNCHANGED <<editions_resp, pages, url, results, requested, refetched, turns,
                   df_comp_seasons, df_matches, messages, event>>

\* A user interaction: Streamlit runs the script again with the widget state
\* w; the two memoized fetches return what they returned before.
Rerun(name, w, clicked, ev) ==
    /\ \E r \in {RunScript(df_comp_seasons, df_matches, w, clicked, ev)} :
          /\ widgets' = r.widgets
          /\ view' = r.view
          /\ uncaught' = r.uncaught
    /\ event' = name
    /\ UNCHANGED <<editions_resp, pages, pc, url, results, requested, refetched, turns,
                   df_comp_seasons, df_matches, messages>>

\* A variant in which a change of the competition forgets the analysis mode.
ChooseClearingDownstream(name, label) ==
    /\ pc = "ui"
    /\ widgets[name].shown
    /\ label \in Range(widgets[name].opts)
    /\ label # widgets[name].val
    /\ Rerun(name,
             IF name = "comp"
             THEN [widgets EXCEPT ![name].val = label, !["mode"] = Fresh]
             ELSE [widgets EXCEPT ![name].val = label],
             FALSE, TransportFailure)

\* The user picks another option of a select box or radio.
Choose(name, label) ==
    /\ pc = "ui"
    /\ widgets[name].shown
    /\ label \in Range(widgets[name].opts)
    /\ label # widgets[name].val
    /\ Rerun(name, [widgets EXCEPT ![name].val = label], FALSE, TransportFailure)

SelectCompetition == \E label \in Range(widgets["comp"].opts) : Choose("comp", label)

SelectSeason == \E label \in Range(widgets["season"].opts) : Choose("season", label)

SelectAnalysis == \E label \in Range(AnalysisTypes) : Choose("mode", label)

SelectVisualization == \E label \in Range(Visualizations) : Choose("vis", label)

SelectMatch == \E label \in Range(widgets["match"].opts) : Choose("match", label)

\* The user clicks "Fetch Dynamic Events", line 170.
ClickFetchDynamicEvents ==
    /\ pc = "ui"
    /\ view.button
    /\ \E ev \in EventResponses : Rerun("button", widgets, TRUE, ev)

\* A variant in which the uploaded table takes the place of the matches table.
UploadFileIntoMatches ==
    /\ pc = "ui"
    /\ widgets["upload"].shown
    /\ \E file \in Files :
          /\ df_matches' = ReadUploaded(file).ret
          /\ event' = "upload"
          /\ UNCHANGED <<editions_resp, pages, pc, url, results, requested, refetched, turns,
                         df_comp_seasons, messages, uncaught, widgets, view>>

\* The user gives a file to the uploader of line 177.
UploadFile ==
    /\ pc = "ui"
    /\ widgets["upload"].shown
    /\ \E file \in Files :
          Rerun("upload", [widgets EXCEPT !["upload"].val = file], FALSE, TransportFailure)


\* ------------------------------------------------------ specifications

\* What the competition editions endpoint may answer: no answer, an error
\* status, a body without results, or up to n of the given records.
EditionsResponses(records, n) ==
    {TransportFailure, HttpResponse(500, ErrorBody), HttpResponse(200, ErrorBody)}
    \cup {HttpResponse(200, [results |-> r]) : r \in SeqsUpTo(records, n)}

\* The state of a session before the first run of the script.
InitSession ==
    /\ pc = "fetch_competition_editions"
    /\ url = None
    /\ results = <<>>
    /\ requested = {}
    /\ refetched = {}
    /\ turns = 0
    /\ df_comp_seasons = Unassigned
    /\ df_matches = Unassigned
    /\ messages = {}
    /\ uncaught = NoException
    /\ widgets = NoWidgets
    /\ view = EmptyView
    /\ event = "none"

\* The competition editions listed by competition and season.
ListedInOrder(r) ==
    \A i \in 1..(Len(r) - 1) :
        \/ r[i]["competition"]["id"] < r[i + 1]["competition"]["id"]
        \/ /\ r[i]["competition"]["id"] = r[i + 1]["competition"]["id"]
           /\ r[i]["season"]["id"] <= r[i + 1]["season"]["id"]

\* The records of a matches page; none for a response that is no 200.
RecordsOf(response) ==
    IF response.kind = "http" /\ response.status = 200
    THEN response.body["results"] ELSE <<>>

\* A matches page that names its next (a URL or null) and lists its matches
\* by id, each once; or an error.
PlainPage(response) ==
    /\ (response.kind = "http" /\ response.status = 200) =>
           "next" \in DOMAIN response.body
    /\ \A i \in 1..(Len(RecordsOf(response)) - 1) :
           RecordsOf(response)[i]["id"] < RecordsOf(response)[i + 1]["id"]

\* The whole application, against a remote whose matches collection lists
\* each match once, by id, over at most two pages; a page the first does not
\* lead to is never asked for.
Init ==
    /\ InitSession
    /\ editions_resp \in
           {e \in EditionsResponses(ValidRecords, MaxEditions) :
                (e.kind = "http" /\ "results" \in DOMAIN e.body)
                    => ListedInOrder(e.body["results"])}
           \cup {HttpResponse(200, [results |-> <<[season |-> [id |-> 1]]>>])}
    /\ \E first \in {p \in PageResponses(MatchCatalog, {MatchesUrl \o "&offset=1"}) :
                         PlainPage(p)},
          second \in {p \in PageResponses(MatchCatalog, {}) : PlainPage(p)} :
          /\ (first.kind = "http" /\ first.status = 200 /\ first.body["next"] # None)
                 \/ second = TransportFailure
          /\ \A a \in Range(RecordsOf(first)), b \in Range(RecordsOf(second)) :
                 a["id"] < b["id"]
          /\ pages = [u \in Urls |-> IF u = MatchesUrl THEN first
                                     ELSE IF u = MatchesUrl \o "&offset=1" THEN second
                                     ELSE TransportFailure]

Next ==
    \/ FetchCompetitionEditions
    \/ FetchPage
    \/ ReturnMatches
    \/ Render
    \/ SelectCompetition
    \/ SelectSeason
    \/ SelectAnalysis
    \/ SelectVisualization
    \/ SelectMatch
    \/ ClickFetchDynamicEvents
    \/ UploadFile

Spec == Init /\ [][Next]_vars

\* The two fetches alone, against every remote whose matches pages link to
\* one another in any way.
InitFetch ==
    /\ InitSession
    /\ editions_resp = HttpResponse(200, [results |-> <<EditionRecord(1, 1)>>])
    /\ pages \in [Urls -> PageResponses({r \in MatchCatalog : r["id"] \in {1, 3}}, Urls)]

NextFetch ==
    \/ FetchCompetitionEditions
    \/ FetchPage
    \/ ReturnMatches

SpecFetch == InitFetch /\ [][NextFetch]_vars

\* The script runs on: a step of fetch_all_matches that can be taken is taken.
FairSpecFetch == SpecFetch /\ WF_vars(FetchPage) /\ WF_vars(ReturnMatches)

\* fetch_competition_editions alone, on every list of well-formed and
\* malformed records.
InitNormalize ==
    /\ InitSession
    /\ editions_resp \in EditionsResponses(ValidRecords \cup MalformedRecords, MaxEditions)
    /\ pages = [u \in Urls |-> TransportFailure]

NextNormalize == FetchCompetitionEditions

SpecNormalize == InitNormalize /\ [][NextNormalize]_vars

\* ------------------------------------------------------------- properties

\* The matches fetch met a response that was not a 200.
HttpErrorMet == \E u \in requested : pages[u].kind = "http" /\ pages[u].status # 200

\* C1: when any page of the matches collection answers with a status other
\* than 200, fetch_all_matches returns an error and never a table holding the
\* records of the pages before it.
C1_AllOrError ==
    (pc = "render" /\ HttpErrorMet) =>
        ~(df_matches.kind = "DataFrame" /\ df_matches.rows # <<>>)

\* The next field of the page at u: a URL, or None when null or left out.
NextOf(u) ==
    IF "next" \in DOMAIN pages[u].body THEN pages[u].body["next"] ELSE None

RECURSIVE EndsAfterOkPages(_, _)
\* From u on, every page answers 200 and the chain of next URLs ends without
\* coming back to a URL in seen.
EndsAfterOkPages(u, seen) ==
    \/ u = None
    \/ /\ u \in Urls \ seen
       /\ pages[u].kind = "http"
       /\ pages[u].status = 200
       /\ EndsAfterOkPages(NextOf(u), seen \cup {u})

RECURSIVE ChainFrom(_)
\* The URLs of such a chain, in page order.
ChainFrom(u) == IF u = None THEN <<>> ELSE <<u>> \o ChainFrom(NextOf(u))

RECURSIVE ResultsAlong(_)
ResultsAlong(chain) ==
    IF chain = <<>> THEN <<>>
    ELSE pages[Head(chain)].body["results"] \o ResultsAlong(Tail(chain))

RECURSIVE LengthsAlong(_)
LengthsAlong(chain) ==
    IF chain = <<>> THEN 0
    ELSE Len(pages[Head(chain)].body["results"]) + LengthsAlong(Tail(chain))

\* C2: over a finite chain of pages that all answer 200, fetch_all_matches
\* returns the pages' results arrays concatenated in page order, having
\* requested every page of the chain once and no other URL, and it has left
\* the loop only behind a page whose next is null or left out.
C2_ConcatenatesChain ==
    (pc = "render" /\ EndsAfterOkPages(MatchesUrl, {})) =>
        LET chain == ChainFrom(MatchesUrl) IN
        /\ df_matches = DataFrame(ResultsAlong(chain))
        /\ Len(df_matches.rows) = LengthsAlong(chain)
        /\ requested = Range(chain)
        /\ refetched = {}
        /\ NextOf(chain[Len(chain)]) = None

\* A chain of three pages has been fetched whole, its records differing.
C2_Witness ==
    /\ pc = "render"
    /\ EndsAfterOkPages(MatchesUrl, {})
    /\ Len(ChainFrom(MatchesUrl)) = 3
    /\ Len(df_matches.rows) >= 2
    /\ df_matches.rows[1] # df_matches.rows[2]
    /\ "next" \notin DOMAIN pages[ChainFrom(MatchesUrl)[3]].body

\* C10: a started fetch of the matches collection ends, with a table or with
\* an exception (or leaves what this model follows), chains of next URLs
\* that come back to a fetched URL included.
C10_FetchEnds ==
    (pc = "fetch_all_matches") ~> (pc \in {"render", "exception", "outgrown"})

\* C5: no network-level failure leaves the fetch layer as an exception that
\* nothing handles.
C5_TransportHandled == uncaught.type # "ConnectionError"

\* The fetch of the matches collection reported an error.
MatchesFetchFailed == \E m \in messages : m[1] = "fetch_all_matches"

\* C4: when the competition editions did not load no competition, season or
\* analysis selector is offered, and when the matches fetch failed the
\* Analyse Match branch offers no match and no fetch of dynamic events.
C4_NoOptionsPastFailedLoad ==
    pc = "ui" =>
        /\ df_comp_seasons.kind = "None" =>
               \A n \in {"comp", "season", "mode"} : ~widgets[n].shown
        /\ MatchesFetchFailed =>
               /\ ~widgets["match"].shown
               /\ view.match_options.keys = <<>>
               /\ ~view.button

\* The rows of the matches table of the selected competition and season.
MatchingRows ==
    {r \in Range(df_matches.rows) :
        /\ r["competition_id"] = view.selected_comp_id[1]
        /\ r["season_id"] = view.selected_season_id[1]}

\* The match ids the match select box lets the user reach.
OfferedMatchIds ==
    IF widgets["match"].shown
    THEN {view.match_options.at[l] : l \in Range(widgets["match"].opts)}
    ELSE {}

\* C8: in the Analyse Match mode the matches offered are those of the rows
\* of the selected competition and season, every one of them and no other,
\* and where there is none no match is selected and none can be fetched.
C8_OffersMatchingRows ==
    (pc = "ui" /\ view.analysis_option = "Analyse Match") =>
        /\ OfferedMatchIds = {r["id"] : r \in MatchingRows}
        /\ MatchingRows = {} => (view.selected_match_id = Unset /\ ~view.button)

\* A step that changes the selected competition.
CompetitionChanged ==
    /\ pc = "ui"
    /\ view.selected_comp_id # Unset
    /\ view'.selected_comp_id # Unset
    /\ view'.selected_comp_id # view.selected_comp_id

C7_SeasonOptions ==
    (pc = "ui" /\ widgets["season"].shown) =>
        LET mine == {r \in Range(df_comp_seasons.rows) :
                        r["competition_id"] = view.selected_comp_id[1]}
            labels == {SeasonLabel(r) : r \in mine}
        IN /\ Range(widgets["season"].opts) = labels
           /\ Len(widgets["season"].opts) = Cardinality(labels)
           /\ widgets["season"].val \in labels
           /\ \E r \in mine : /\ SeasonLabel(r) = widgets["season"].val
                              /\ view.selected_season_id = <<r["season_id"]>>

\* The user has picked the second of two seasons of a competition.
C7_Witness ==
    /\ pc = "ui"
    /\ event = "season"
    /\ Len(widgets["season"].opts) = 2
    /\ widgets["season"].val = widgets["season"].opts[2]

\* C9: an upload, parsed or not, leaves the two loaded tables and the
\* selected competition, season, analysis mode and match as they were.
C9_UploadLeavesTablesAndSelection ==
    [][(pc = "ui" /\ event' = "upload") =>
           /\ df_comp_seasons' = df_comp_seasons
           /\ df_matches' = df_matches
           /\ view'.selected_comp_id = view.selected_comp_id
           /\ view'.selected_season_id = view.selected_season_id
           /\ view'.analysis_option = view.analysis_option
           /\ view'.selected_match_id = view.selected_match_id]_vars

\* A file that does not parse has been uploaded while a match other than
\* the first was selected.
C9_Witness ==
    /\ event = "upload"
    /\ uncaught = Exception("ParserError", "script")
    /\ view.selected_match_id # Unset
    /\ widgets["match"].val # widgets["match"].opts[1]

\* C6: of N well-formed records fetch_competition_editions makes N rows, in
\* order, the ids and the name copied and season_name the start year, a
\* slash, the end year; of a list with a malformed record it makes no table.
C6_Normalization ==
    (pc # "fetch_competition_editions" /\ editions_resp.kind = "http"
        /\ editions_resp.status = 200 /\ "results" \in DOMAIN editions_resp.body) =>
        LET items == editions_resp.body["results"] IN
        IF Range(items) \subseteq ValidRecords
        THEN /\ df_comp_seasons.kind = "DataFrame"
             /\ Len(df_comp_seasons.rows) = Len(items)
             /\ \A i \in 1..Len(items) :
                    LET row == df_comp_seasons.rows[i] IN
                    /\ row["competition_id"] = items[i].competition.id
                    /\ row["competition_name"] = items[i].competition.name
                    /\ row["season_id"] = items[i].season.id
                    /\ row["season_name"] =
                           (IF items[i].season.id = 1 THEN "2023/2024" ELSE "2024/2025")
        ELSE /\ df_comp_seasons.kind # "DataFrame"
             /\ pc = "exception"
             /\ uncaught = Exception("KeyError", "fetch_competition_editions")

\* A list of as many well-formed records as the model allows, not all the
\* same, has been made a table.
C6_Witness ==
    /\ pc = "fetch_all_matches"
    /\ Len(df_comp_seasons.rows) = MaxEditions
    /\ df_comp_seasons.rows[1] # df_comp_seasons.rows[MaxEditions]

====
